---- MODULE Spec2Model ----
(***************************************************************************)
(* Model of hooks/diagnostics_parser.py: one invocation of the hook.       *)
(*                                                                         *)
(* The snapshot file belongs to an external writer.  The program only      *)
(* looks at it through exists(), stat() and open()/read(); at each of      *)
(* those looks the writer may have put the file in any state, so each      *)
(* look draws the state it sees from FileStates.                           *)
(*                                                                         *)
(* JSON values are records [type, items, truthy]; a Python dict is a       *)
(* function whose DOMAIN is the set of keys that are present; a text is    *)
(* the sequence of its lines; a path is the sequence of its components.    *)
(***************************************************************************)
EXTENDS Integers, Sequences, FiniteSets, TLC

VARIABLES
    event,            \* hook_event_name handed to main's dispatch
    file_seen,        \* the state of the file at the program's latest look at it
    pc,               \* position of the single thread of control
    diagnostics_file, \* self.diagnostics_file: 0 is None, i is candidate i
    locates,          \* calls of _locate_diagnostics_file so far
    slept,            \* time units spent in time.sleep, whole invocation
    load_slept,       \* time units spent in time.sleep inside load_diagnostics
    attempt,          \* loop variable of load_diagnostics (0-based)
    attempts,         \* loop iterations of load_diagnostics begun so far
    absent_checks,    \* iterations whose exists() check returned False
    reads,            \* reads that got as far as a parsed value
    outcome,          \* how the latest iteration of the loop ended
    content,          \* what the latest f.read() returned
    data,             \* the value load_diagnostics returned
    stats,            \* the value analyze_statistics returned
    reason_md,        \* the value generate_reason_markdown returned
    blocked,          \* the value check_and_report returned
    stdout,           \* lines printed to standard output
    stderr,           \* lines printed to standard error
    exc,              \* the exception that is propagating, or "none"
    exit_code         \* status given to sys.exit, or -1 while running

vars == <<event, file_seen, pc, diagnostics_file, locates, slept, load_slept, attempt,
          attempts, absent_checks, reads, outcome, content, data, stats,
          reason_md, blocked, stdout, stderr, exc, exit_code>>

----------------------------------------------------------------------------
(* Bounds of the model *)

\* most file entries in an enumerated snapshot
MaxFiles == 2
\* most diagnostics in an enumerated snapshot, all files together
MaxDiags == 2

(* Constants of the program *)

\* range(5)
MaxAttempts == 5
\* attempt < 4
LastAttempt == 4
\* time.sleep(1) between attempts
RetryDelay == 1
\* time.sleep(3) before the first read
SettleDelay == 3
\* time.sleep(2) before the location is resolved again
RelocateDelay == 2
\* possible_paths has three entries
NumCandidates == 3
\* sys.exit(0) and sys.exit(1)
ExitOk == 0
ExitFailure == 1

----------------------------------------------------------------------------
(* Python values *)

\* dict.get(k, default)
Get(d, k, default) == IF k \in DOMAIN d THEN d[k] ELSE default

\* {} and []
EmptyDict == [k \in {} |-> 0]
EmptyList == [type |-> "array", items |-> <<>>, truthy |-> FALSE]

List(items) == [type |-> "array", items |-> items, truthy |-> items # <<>>]

\* Optional[str]: None, or a text as the sequence of its lines
None == [none |-> TRUE, lines |-> <<>>]
Text(lines) == [none |-> FALSE, lines |-> lines]

\* bool(reason_md): None and the empty string are falsy
Truthy(md) == ~md.none /\ md.lines # <<>>

SEVERITY_MAP == [c \in 0..3 |->
    CASE c = 0 -> "Error"
      [] c = 1 -> "Warning"
      [] c = 2 -> "Information"
      [] c = 3 -> "Hint"]

SEVERITY_ICONS == [l \in {"Error", "Warning", "Information", "Hint"} |->
    CASE l = "Error" -> "cross-mark"
      [] l = "Warning" -> "warning-sign"
      [] l = "Information" -> "info-sign"
      [] l = "Hint" -> "light-bulb"]

\* self.SEVERITY_MAP.get(diag.get("severity", 0), "Unknown")
SeverityName(diag) == Get(SEVERITY_MAP, Get(diag, "severity", 0), "Unknown")

\* self.SEVERITY_ICONS.get(severity_name, <clipboard>)
SeverityIcon(severity_name) == Get(SEVERITY_ICONS, severity_name, "clipboard")

----------------------------------------------------------------------------
(* analyze_statistics *)

\* severity_count[sev] += 1 on a Counter
Increment(counter, key) ==
    IF key \in DOMAIN counter
    THEN [counter EXCEPT ![key] = @ + 1]
    ELSE counter @@ (key :> 1)

RECURSIVE CountSeverities(_, _)
\* for diag in diagnostics: count its severity name
CountSeverities(diagnostics, counter) ==
    IF Len(diagnostics) = 0 THEN counter
    ELSE CountSeverities(Tail(diagnostics),
                         Increment(counter, SeverityName(Head(diagnostics))))

RECURSIVE AnalyzeFromSkippingEmpty(_, _)
\* a file entry without diagnostics is not counted as a file
AnalyzeFromSkippingEmpty(files, acc) ==
    IF Len(files) = 0 THEN acc
    ELSE LET file_data == Head(files)
             diagnostics == Get(file_data, "diagnostics", <<>>)
         IN AnalyzeFromSkippingEmpty(Tail(files),
                [total_files |-> acc.total_files
                                 + (IF Len(diagnostics) = 0 THEN 0 ELSE 1),
                 total_diagnostics |-> acc.total_diagnostics + Len(diagnostics),
                 by_severity |-> CountSeverities(diagnostics, acc.by_severity)])

RECURSIVE AnalyzeFrom(_, _)
\* for file_data in data: one more file, its diagnostics counted
AnalyzeFrom(files, acc) ==
    IF Len(files) = 0 THEN acc
    ELSE LET file_data == Head(files)
             diagnostics == Get(file_data, "diagnostics", <<>>)
         IN AnalyzeFrom(Tail(files),
                [total_files |-> acc.total_files + 1,
                 total_diagnostics |-> acc.total_diagnostics + Len(diagnostics),
                 by_severity |-> CountSeverities(diagnostics, acc.by_severity)])

\* the counter starts with the four severities at 0
analyze_statistics_four_keys(d) ==
    AnalyzeFrom(d.items,
        [total_files |-> 0, total_diagnostics |-> 0,
         by_severity |-> [name \in {"Error", "Warning", "Information", "Hint"} |-> 0]])

\* by_severity is dict(severity_count): only the names that were counted
analyze_statistics(d) ==
    AnalyzeFrom(d.items,
        [total_files |-> 0, total_diagnostics |-> 0, by_severity |-> EmptyDict])

\* Iterating a truthy value that is no array raises TypeError (number, true),
\* or yields its keys or characters, whose .get raises AttributeError.
AnalyzeRaises(d) == d.type # "array"
AnalyzeError(d) == IF d.type = "object" THEN "AttributeError" ELSE "TypeError"

\* the statistics before analyze_statistics has run
NoStats == [total_files |-> 0, total_diagnostics |-> 0, by_severity |-> EmptyDict]

----------------------------------------------------------------------------
(* generate_reason_markdown: the report *)

\* Path(__file__).parent.parent.parent.resolve()
_project_root == <<"proj">>

\* Path(file_path).name
BaseName(file_path) == file_path[Len(file_path)]

\* p.relative_to(root), and file_path itself on ValueError
_relativize(file_path) ==
    LET root == _project_root
    IN IF Len(file_path) >= Len(root) /\ SubSeq(file_path, 1, Len(root)) = root
       THEN SubSeq(file_path, Len(root) + 1, Len(file_path))
       ELSE file_path

\* sum(1 for d in diagnostics if d.get("severity") == code)
CountSeverity(diagnostics, code) ==
    Cardinality({i \in 1..Len(diagnostics) :
        "severity" \in DOMAIN diagnostics[i] /\ diagnostics[i].severity = code})

\* summary_parts: "<n>个<noun>" for each count that is not zero
SummaryParts(diagnostics) ==
    LET part(n, noun) == IF n # 0 THEN <<[n |-> n, noun |-> noun]>> ELSE <<>>
    IN part(CountSeverity(diagnostics, 0), "error")
       \o part(CountSeverity(diagnostics, 1), "warning")
       \o part(CountSeverity(diagnostics, 2), "information")
       \o part(CountSeverity(diagnostics, 3), "hint")

BlankLine == [kind |-> "blank"]

\* bool(diagnostic.get(k)): present and not the empty string
HasText(diagnostic, k) == k \in DOMAIN diagnostic /\ diagnostic[k] # ""

\* the lines appended for one diagnostic
EntryLines(diagnostic, file_path) ==
    LET severity_name == SeverityName(diagnostic)
        start == Get(diagnostic, "start", EmptyDict)
        end == Get(diagnostic, "end", EmptyDict)
    IN <<[kind |-> "position",
          line |-> Get(start, "line", 0),
          start_char |-> Get(start, "character", 0),
          end_char |-> Get(end, "character", 0),
          icon |-> SeverityIcon(severity_name),
          severity_name |-> severity_name],
         [kind |-> "message", text |-> Get(diagnostic, "message", "none")]>>
       \o (IF HasText(diagnostic, "source")
           THEN <<[kind |-> "source", text |-> diagnostic.source]>> ELSE <<>>)
       \o (IF HasText(diagnostic, "code")
           THEN <<[kind |-> "code", text |-> diagnostic.code]>> ELSE <<>>)
       \o <<[kind |-> "file_path", path |-> _relativize(file_path)], BlankLine>>

RECURSIVE EntriesLines(_, _)
\* for diagnostic in diagnostics
EntriesLines(diagnostics, file_path) ==
    IF Len(diagnostics) = 0 THEN <<>>
    ELSE EntryLines(Head(diagnostics), file_path)
         \o EntriesLines(Tail(diagnostics), file_path)

\* the lines appended for one file entry; none when it has no diagnostics
FileLines(file_data) ==
    LET diagnostics == Get(file_data, "diagnostics", <<>>)
    IN IF Len(diagnostics) = 0 THEN <<>>
       ELSE <<[kind |-> "file_heading",
               file_name |-> BaseName(file_data.file),
               summary |-> SummaryParts(diagnostics)],
              BlankLine>>
            \o EntriesLines(diagnostics, file_data.file)

RECURSIVE DetailLinesReversed(_)
\* the file sections in the reverse of the snapshot's order
DetailLinesReversed(files) ==
    IF Len(files) = 0 THEN <<>>
    ELSE DetailLinesReversed(Tail(files)) \o FileLines(Head(files))

RECURSIVE DetailLines(_)
\* detail_lines: for file_data in data
DetailLines(files) ==
    IF Len(files) = 0 THEN <<>>
    ELSE FileLines(Head(files)) \o DetailLines(Tail(files))

\* file_data["file"] raises KeyError on an entry that has diagnostics and no file
RenderRaises(d) ==
    \E i \in 1..Len(d.items) :
        /\ Len(Get(d.items[i], "diagnostics", <<>>)) # 0
        /\ "file" \notin DOMAIN d.items[i]

\* errors and warnings, read from the statistics with a default of 0
ErrorCount(st) == Get(st.by_severity, "Error", 0)
WarningCount(st) == Get(st.by_severity, "Warning", 0)

\* if not errors: return None
NothingToReportErrorsOnly(st) == ErrorCount(st) = 0

\* if not errors and not warnings: return None
NothingToReport(st) == ErrorCount(st) = 0 /\ WarningCount(st) = 0

\* header with the two counts in each other's place
HeaderLinesSwapped(st) ==
    <<[kind |-> "summary_title"],
      BlankLine,
      [kind |-> "error_count", n |-> WarningCount(st)],
      [kind |-> "warning_count", n |-> ErrorCount(st)],
      BlankLine>>

\* header
HeaderLines(st) ==
    <<[kind |-> "summary_title"],
      BlankLine,
      [kind |-> "error_count", n |-> ErrorCount(st)],
      [kind |-> "warning_count", n |-> WarningCount(st)],
      BlankLine>>

\* reason_md = "\n".join(header + detail_lines)
ReasonMarkdown(d, st) == Text(HeaderLines(st) \o DetailLines(d.items))

\* what generate_reason_markdown returns once the statistics are known
ReportOf(d, st) == IF NothingToReport(st) THEN None ELSE ReasonMarkdown(d, st)

----------------------------------------------------------------------------
(* The snapshot file as the external writer can present it *)

\* missing: no such file.  zero: size 0.  blank: whitespace only.
\* badjson: text that is no JSON (a truncated write).  badutf8: bytes that
\* are no UTF-8 (a write truncated inside a multi-byte character).
\* locked: present, not readable.  valid: JSON text.
FileStates == {"missing", "zero", "blank", "badjson", "badutf8", "locked", "valid"}

\* Path.exists()
Exists(f) == f # "missing"

\* Path.stat() raises FileNotFoundError when the file is gone
StatRaises(f) == f = "missing"

\* Path.stat().st_size == 0
SizeIsZero(f) == f = "zero"

\* Path.open() raises FileNotFoundError or PermissionError, both OSError
OpenRaises(f) == f \in {"missing", "locked"}

\* f.read() with encoding="utf-8" raises UnicodeDecodeError, a ValueError
ReadRaises(f) == f = "badutf8"

\* f.read().strip() is the empty string
StrippedIsEmpty(f) == f \in {"zero", "blank"}

\* json.loads(content) raises JSONDecodeError
ParseRaises(f) == f = "badjson"

\* the exceptions the except clause of load_diagnostics names;
\* FileNotFoundError is raised as the OSError it is
CaughtInLoad == {"JSONDecodeError", "OSError", "PermissionError"}

\* what f.read().strip() returned: a JSON text stands for the value it
\* denotes, any other text for nothing
NoContent == [text |-> "none", value |-> EmptyList]
TextOf(f, value) == [text |-> f, value |-> value]

\* json.loads(content), defined where ParseRaises is false
json_loads(c) == c.value

----------------------------------------------------------------------------
(* The values a snapshot file can hold *)

\* paths as the analyzer reports them: one under the project root, one not
FilePaths == {<<"proj", "src", "a.py">>, <<"tmp", "b.py">>}

\* the severity codes of SEVERITY_MAP and the first code it does not know
SeverityCodes == 0..Cardinality(DOMAIN SEVERITY_MAP)

\* diagnostics: every severity code, and one entry with no severity field
Diagnostics ==
    {[severity |-> c] : c \in SeverityCodes} \cup {[message |-> "unused"]}

\* the file entries with k diagnostics
FileEntries(k) ==
    {[file |-> f, diagnostics |-> ds] : f \in FilePaths, ds \in [1..k -> Diagnostics]}

RECURSIVE SnapshotsOf(_, _)
\* the sequences of n file entries with at most budget diagnostics in all
SnapshotsOf(n, budget) ==
    IF n = 0 THEN {<<>>}
    ELSE UNION {{<<e>> \o rest : e \in FileEntries(k),
                                rest \in SnapshotsOf(n - 1, budget - k)} :
                k \in 0..budget}

\* the well-formed snapshots within the bounds
Snapshots == {List(s) : s \in UNION {SnapshotsOf(n, MaxDiags) : n \in 0..MaxFiles}}

\* Scenario A, B and C of the specification, and one entry with every field
ScenarioA == List(<<[file |-> <<"proj", "a.py">>, diagnostics |->
    <<[severity |-> 0, message |-> "bad syntax",
       start |-> [line |-> 3, character |-> 1],
       end |-> [line |-> 3, character |-> 5]]>>]>>)
ScenarioB == List(<<[file |-> <<"proj", "b.py">>, diagnostics |->
    <<[severity |-> 2, message |-> "note"]>>]>>)
ScenarioC == EmptyList
FullEntry == List(<<[file |-> <<"tmp", "b.py">>, diagnostics |->
    <<[severity |-> 1, message |-> "unused", source |-> "pylint", code |-> "W0611",
       start |-> [line |-> 1, character |-> 0],
       end |-> [line |-> 1, character |-> 9]],
      [message |-> "no severity"]>>]>>)

\* a file entry with no diagnostics field beside one with a warning
NoDiagnosticsField == List(<<[file |-> <<"proj", "a.py">>],
    [file |-> <<"proj", "b.py">>, diagnostics |-> <<[severity |-> 1]>>]>>)

\* parsable content that is no array of file-diagnostics objects
NoFileField == List(<<[diagnostics |-> <<[severity |-> 0]>>]>>)
NoFileFieldInfo == List(<<[diagnostics |-> <<[severity |-> 2]>>]>>)
EmptyObject == [type |-> "object", items |-> <<>>, truthy |-> FALSE]
NonEmptyObject == [type |-> "object", items |-> <<>>, truthy |-> TRUE]
Number == [type |-> "number", items |-> <<>>, truthy |-> TRUE]
Null == [type |-> "null", items |-> <<>>, truthy |-> FALSE]

Malformed == {NoFileField, NoFileFieldInfo, EmptyObject, NonEmptyObject, Number, Null}

\* the values the writer puts in the file during a whole invocation
Documents == {ScenarioA, ScenarioB, ScenarioC, FullEntry, NoDiagnosticsField} \cup Malformed

----------------------------------------------------------------------------
(* main: dispatch on the event *)

\* the two events that run the diagnostics check, and three that do not:
\* the last one stands for an event name with characters outside ASCII
HookEvents == {"PostToolUse", "UserPromptSubmit"}
Events == HookEvents \cup {"Stop", "Unknown", "non_ascii_name"}

\* the encodings sys.stdout can have: UTF-8, or one that has no Chinese
\* characters or emoji (ascii, latin-1)
StdoutEncodings == {"utf-8", "ascii"}

\* print(text) raises UnicodeEncodeError when sys.stdout cannot encode the
\* text.  The echo line, the report and the banner all hold Chinese text.
PrintRaises(encoding) == encoding # "utf-8"

\* the fallback line is ASCII but for the event name it repeats
FallbackPrintRaises(encoding, name) ==
    PrintRaises(encoding) /\ name = "non_ascii_name"

Candidates == 1..NumCandidates

\* the first candidate that exists at check time, or None (0)
_locate_diagnostics_file(existing) ==
    IF existing = {} THEN 0
    ELSE CHOOSE i \in existing : \A j \in existing : i <= j

Init ==
    /\ event \in Events
    /\ file_seen = "unseen"
    /\ pc = "start"
    /\ diagnostics_file = 0
    /\ locates = 0
    /\ slept = 0
    /\ load_slept = 0
    /\ attempt = 0
    /\ attempts = 0
    /\ absent_checks = 0
    /\ reads = 0
    /\ outcome = "pending"
    /\ content = NoContent
    /\ data = EmptyList
    /\ stats = NoStats
    /\ reason_md = None
    /\ blocked = FALSE
    /\ stdout = <<>>
    /\ stderr = <<>>
    /\ exc = "none"
    /\ exit_code = -1

\* checker = DiagnosticsChecker(): __init__ resolves the location
Construct ==
    /\ pc = "start"
    /\ event \in HookEvents
    /\ \E existing \in SUBSET Candidates :
           diagnostics_file' = _locate_diagnostics_file(existing)
    /\ locates' = locates + 1
    /\ pc' = "settle"
    /\ UNCHANGED <<event, file_seen, slept, load_slept, attempt, attempts,
                   absent_checks, reads, outcome, content, data, stats, reason_md, blocked,
                   stdout, stderr, exc, exit_code>>

\* any other event: print the event name; on UnicodeEncodeError print the
\* fallback line, whose own UnicodeEncodeError leaves the try block
Echo ==
    /\ pc = "start"
    /\ event \notin HookEvents
    /\ \E encoding \in StdoutEncodings :
         IF ~PrintRaises(encoding)
         THEN /\ stdout' = Append(stdout, [kind |-> "echo", event |-> event])
              /\ pc' = "finish"
              /\ exc' = exc
         ELSE IF ~FallbackPrintRaises(encoding, event)
         THEN /\ stdout' = Append(stdout, [kind |-> "echo_ascii", event |-> event])
              /\ pc' = "finish"
              /\ exc' = exc
         ELSE /\ exc' = "UnicodeEncodeError"
              /\ pc' = "raised"
              /\ stdout' = stdout
    /\ UNCHANGED <<event, file_seen, diagnostics_file, locates, slept, load_slept,
                   attempt, attempts, absent_checks, reads, outcome, content, data,
                   stats, reason_md, blocked, stderr, exit_code>>

----------------------------------------------------------------------------
(* generate_reason_markdown: the waits before the load *)

\* time.sleep(3)
Settle ==
    /\ pc = "settle"
    /\ slept' = slept + SettleDelay
    /\ pc' = "relocate"
    /\ UNCHANGED <<event, file_seen, diagnostics_file, locates, load_slept, attempt,
                   attempts, absent_checks, reads, outcome, content, data, stats, reason_md,
                   blocked, stdout, stderr, exc, exit_code>>

\* the location is resolved again only when none was found at construction
RelocateOnlyWhenNone ==
    /\ pc = "relocate"
    /\ \E f \in FileStates :
         /\ file_seen' = IF diagnostics_file = 0 THEN file_seen ELSE f
         /\ IF diagnostics_file = 0
            THEN /\ slept' = slept + RelocateDelay
                 /\ \E existing \in SUBSET Candidates :
                        diagnostics_file' = _locate_diagnostics_file(existing)
                 /\ locates' = locates + 1
            ELSE UNCHANGED <<slept, diagnostics_file, locates>>
    /\ pc' = "load"
    /\ UNCHANGED <<event, load_slept, attempt, attempts, absent_checks, reads,
                   outcome, content, data, stats, reason_md, blocked, stdout,
                   stderr, exc, exit_code>>

\* if not self.diagnostics_file or not self.diagnostics_file.exists():
\*     time.sleep(2); resolve the location again
Relocate ==
    /\ pc = "relocate"
    /\ \E f \in FileStates :
         /\ file_seen' = IF diagnostics_file = 0 THEN file_seen ELSE f
         /\ IF diagnostics_file = 0 \/ ~Exists(f)
            THEN /\ slept' = slept + RelocateDelay
                 /\ \E existing \in SUBSET Candidates :
                        diagnostics_file' = _locate_diagnostics_file(existing)
                 /\ locates' = locates + 1
            ELSE UNCHANGED <<slept, diagnostics_file, locates>>
    /\ pc' = "load"
    /\ UNCHANGED <<event, load_slept, attempt, attempts, absent_checks, reads,
                   outcome, content, data, stats, reason_md, blocked, stdout,
                   stderr, exc, exit_code>>

----------------------------------------------------------------------------
(* load_diagnostics *)

\* what no step of load_diagnostics changes
LoadFrame ==
    UNCHANGED <<event, diagnostics_file, locates, stats, reason_md, blocked,
                stdout, exit_code>>

\* the loop is entered whether or not a location is known
LoadBeginAlwaysLoops ==
    /\ pc = "load"
    /\ pc' = "exists"
    /\ data' = data
    /\ attempt' = 0
    /\ UNCHANGED <<file_seen, slept, load_slept, attempts, absent_checks, reads,
                   outcome, content, stderr, exc>>
    /\ LoadFrame

\* if not self.diagnostics_file: return []; otherwise enter the loop
LoadBegin ==
    /\ pc = "load"
    /\ IF diagnostics_file = 0
       THEN pc' = "loaded" /\ data' = EmptyList
       ELSE pc' = "exists" /\ data' = data
    /\ attempt' = 0
    /\ UNCHANGED <<file_seen, slept, load_slept, attempts, absent_checks, reads,
                   outcome, content, stderr, exc>>
    /\ LoadFrame

\* range(4): the loop gives up one attempt early
EndIterationOneShort(result, wait, log) ==
    /\ outcome' = result
    /\ slept' = slept + wait
    /\ load_slept' = load_slept + wait
    /\ stderr' = stderr \o log
    /\ IF attempt + 1 < MaxAttempts - 1
       THEN pc' = "exists" /\ attempt' = attempt + 1 /\ data' = data
       ELSE pc' = "loaded" /\ attempt' = attempt /\ data' = EmptyList
    /\ UNCHANGED <<reads, exc>>

\* The iteration ends without a value after sleeping for wait and printing
\* log: the next iteration of range(5) starts, or the loop is exhausted and
\* the function returns [].
EndIteration(result, wait, log) ==
    /\ outcome' = result
    /\ slept' = slept + wait
    /\ load_slept' = load_slept + wait
    /\ stderr' = stderr \o log
    /\ IF attempt + 1 < MaxAttempts
       THEN pc' = "exists" /\ attempt' = attempt + 1 /\ data' = data
       ELSE pc' = "loaded" /\ attempt' = attempt /\ data' = EmptyList
    /\ UNCHANGED <<reads, exc>>

\* time.sleep(1); continue
SleepAndContinue(result) == EndIteration(result, RetryDelay, <<>>)

\* except (json.JSONDecodeError, OSError, PermissionError) as e:
\* sleep and continue before the last attempt, print the failure on the last
Caught(error) ==
    IF attempt < LastAttempt
    THEN EndIteration(error, RetryDelay, <<>>)
    ELSE EndIteration(error, 0,
             <<[kind |-> "load_failed", attempt |-> attempt + 1, error |-> error]>>)

\* an exception the except clause does not name leaves load_diagnostics
Propagate(error) ==
    /\ outcome' = error
    /\ exc' = error
    /\ pc' = "raised"
    /\ UNCHANGED <<slept, load_slept, stderr, attempt, data, reads>>

\* time.sleep(1) before the parsed value is returned
ReturnParsedAfterWait(c) ==
    /\ outcome' = "ok"
    /\ data' = json_loads(c)
    /\ reads' = reads + 1
    /\ pc' = "loaded"
    /\ slept' = slept + RetryDelay
    /\ load_slept' = load_slept + RetryDelay
    /\ UNCHANGED <<stderr, attempt, exc>>

\* return json.loads(content)
ReturnParsed(c) ==
    /\ outcome' = "ok"
    /\ data' = json_loads(c)
    /\ reads' = reads + 1
    /\ pc' = "loaded"
    /\ UNCHANGED <<slept, load_slept, stderr, attempt, exc>>

\* an exception raised inside the try block
Raise(error) == IF error \in CaughtInLoad THEN Caught(error) ELSE Propagate(error)

\* if not self.diagnostics_file.exists(): time.sleep(1); continue
CheckExists ==
    /\ pc = "exists"
    /\ attempts' = attempts + 1
    /\ \E f \in FileStates :
         /\ file_seen' = f
         /\ IF ~Exists(f)
            THEN SleepAndContinue("absent") /\ absent_checks' = absent_checks + 1
            ELSE /\ pc' = "stat"
                 /\ outcome' = "pending"
                 /\ UNCHANGED <<absent_checks, slept, load_slept, stderr, attempt,
                                data, reads, exc>>
    /\ UNCHANGED content
    /\ LoadFrame

\* file_size = self.diagnostics_file.stat().st_size
\* if file_size == 0: time.sleep(1); continue
CheckSize ==
    /\ pc = "stat"
    /\ \E f \in FileStates :
         /\ file_seen' = f
         /\ IF StatRaises(f) THEN Raise("OSError")
            ELSE IF SizeIsZero(f) THEN SleepAndContinue("zero")
            ELSE /\ pc' = "read"
                 /\ UNCHANGED <<outcome, slept, load_slept, stderr, attempt, data,
                                reads, exc>>
    /\ UNCHANGED <<attempts, absent_checks, content>>
    /\ LoadFrame

\* with self.diagnostics_file.open(encoding="utf-8") as f:
\*     content = f.read().strip()
\*     if not content: time.sleep(1); continue
\*     return json.loads(content)
ReadFile ==
    /\ pc = "read"
    /\ \E f \in FileStates :
         /\ file_seen' = f
         /\ IF OpenRaises(f)
            THEN Raise(IF f = "locked" THEN "PermissionError" ELSE "OSError")
                 /\ content' = content
            ELSE IF ReadRaises(f)
            THEN Raise("UnicodeDecodeError") /\ content' = content
            ELSE IF StrippedIsEmpty(f)
            THEN SleepAndContinue("blank") /\ content' = TextOf(f, EmptyList)
            ELSE IF ParseRaises(f)
            THEN Raise("JSONDecodeError") /\ content' = TextOf(f, EmptyList)
            ELSE \E value \in Documents :
                     /\ content' = TextOf(f, value)
                     /\ ReturnParsed(content')
    /\ UNCHANGED <<attempts, absent_checks>>
    /\ LoadFrame

----------------------------------------------------------------------------
(* generate_reason_markdown: from the loaded data to the report *)

\* data = self.load_diagnostics(); if not data: return None
\* stats = self.analyze_statistics(data)
Analyze ==
    /\ pc = "loaded"
    /\ IF ~data.truthy
       THEN reason_md' = None /\ pc' = "returned" /\ UNCHANGED <<stats, exc>>
       ELSE IF AnalyzeRaises(data)
       THEN exc' = AnalyzeError(data) /\ pc' = "raised" /\ UNCHANGED <<stats, reason_md>>
       ELSE /\ stats' = analyze_statistics(data)
            /\ pc' = "analyzed"
            /\ UNCHANGED <<reason_md, exc>>
    /\ UNCHANGED <<event, file_seen, diagnostics_file, locates, slept, load_slept,
                   attempt, attempts, absent_checks, reads, outcome, content, data,
                   blocked, stdout, stderr, exit_code>>

\* the file is read again for the detail lines, the header is from the
\* statistics of the first read
RenderRereads ==
    /\ pc = "analyzed"
    /\ IF ~NothingToReport(stats) /\ RenderRaises(data)
       THEN exc' = "KeyError" /\ pc' = "raised" /\ reason_md' = reason_md
       ELSE /\ \E reread \in {d \in Documents : d.type = "array" /\ ~RenderRaises(d)} :
                 reason_md' = ReportOf(reread, stats)
            /\ pc' = "returned"
            /\ exc' = exc
    /\ UNCHANGED <<event, file_seen, diagnostics_file, locates, slept, load_slept,
                   attempt, attempts, absent_checks, reads, outcome, content, data,
                   stats, blocked, stdout, stderr, exit_code>>

\* the report carries the number of attempts the load needed
RenderStamped ==
    /\ pc = "analyzed"
    /\ IF ~NothingToReport(stats) /\ RenderRaises(data)
       THEN exc' = "KeyError" /\ pc' = "raised" /\ reason_md' = reason_md
       ELSE /\ reason_md' =
                 IF NothingToReport(stats) THEN None
                 ELSE Text(ReasonMarkdown(data, stats).lines
                           \o <<[kind |-> "attempts", n |-> attempts]>>)
            /\ pc' = "returned"
            /\ exc' = exc
    /\ UNCHANGED <<event, file_seen, diagnostics_file, locates, slept, load_slept,
                   attempt, attempts, absent_checks, reads, outcome, content, data,
                   stats, blocked, stdout, stderr, exit_code>>

\* if not errors and not warnings: return None
\* otherwise build the detail lines and the header and return the report
Render ==
    /\ pc = "analyzed"
    /\ IF ~NothingToReport(stats) /\ RenderRaises(data)
       THEN exc' = "KeyError" /\ pc' = "raised" /\ reason_md' = reason_md
       ELSE /\ reason_md' = ReportOf(data, stats)
            /\ pc' = "returned"
            /\ exc' = exc
    /\ UNCHANGED <<event, file_seen, diagnostics_file, locates, slept, load_slept,
                   attempt, attempts, absent_checks, reads, outcome, content, data, stats,
                   blocked, stdout, stderr, exit_code>>

----------------------------------------------------------------------------
(* check_and_report and main: what is written and how the process ends *)

\* emphasis: the fixed banner, ending in a rule and an empty line
Emphasis ==
    <<[kind |-> "banner_title"], BlankLine,
      [kind |-> "banner_pause"], [kind |-> "banner_order"],
      [kind |-> "banner_step", n |-> 1], [kind |-> "banner_step", n |-> 2],
      [kind |-> "banner_step", n |-> 3], BlankLine,
      [kind |-> "rule"], BlankLine>>

\* print(json.dumps({"decision": "block", "reason": reason_md}))
BlockDecision(md) == [decision |-> "block", reason |-> md.lines]

\* print(json.dumps({"hookSpecificOutput": {...}}))
InjectedContext(md) ==
    [hookEventName |-> "UserPromptSubmit", additionalContext |-> Emphasis \o md.lines]

\* PostToolUse: check_and_report prints the block decision when there is a
\* report.  UserPromptSubmit: main prints the injected context when there is.
\* json.dumps(..., ensure_ascii=False) keeps the Chinese text and the emoji,
\* so the print raises UnicodeEncodeError where sys.stdout cannot encode them.
Report ==
    /\ pc = "returned"
    /\ IF ~Truthy(reason_md)
       THEN /\ stdout' = stdout
            /\ blocked' = FALSE
            /\ pc' = "finish"
            /\ exc' = exc
       ELSE \E encoding \in StdoutEncodings :
            IF PrintRaises(encoding)
            THEN /\ exc' = "UnicodeEncodeError"
                 /\ pc' = "raised"
                 /\ UNCHANGED <<stdout, blocked>>
            ELSE /\ stdout' = Append(stdout,
                        IF event = "PostToolUse" THEN BlockDecision(reason_md)
                        ELSE InjectedContext(reason_md))
                 /\ blocked' = (event = "PostToolUse")
                 /\ pc' = "finish"
                 /\ exc' = exc
    /\ UNCHANGED <<event, file_seen, diagnostics_file, locates, slept, load_slept,
                   attempt, attempts, absent_checks, reads, outcome, content, data,
                   stats, reason_md, stderr, exit_code>>

\* sys.exit(0)
SysExit ==
    /\ pc = "finish"
    /\ exit_code' = ExitOk
    /\ pc' = "exited"
    /\ UNCHANGED <<event, file_seen, diagnostics_file, locates, slept, load_slept,
                   attempt, attempts, absent_checks, reads, outcome, content, data, stats,
                   reason_md, blocked, stdout, stderr, exc>>

\* except Exception as e: print the error report to stderr; sys.exit(1)
MainExcept ==
    /\ pc = "raised"
    /\ stderr' = Append(stderr, [kind |-> "hook_failed", error_type |-> exc])
    /\ exit_code' = ExitFailure
    /\ pc' = "exited"
    /\ UNCHANGED <<event, file_seen, diagnostics_file, locates, slept, load_slept,
                   attempt, attempts, absent_checks, reads, outcome, content, data, stats,
                   reason_md, blocked, stdout, exc>>

----------------------------------------------------------------------------
(* Specifications *)

Next ==
    \/ Construct
    \/ Echo
    \/ Settle
    \/ Relocate
    \/ LoadBegin
    \/ CheckExists
    \/ CheckSize
    \/ ReadFile
    \/ Analyze
    \/ Render
    \/ Report
    \/ SysExit
    \/ MainExcept

\* one invocation of the hook, from the event to the exit status
Spec == Init /\ [][Next]_vars

\* load_diagnostics has just returned a snapshot read at its first attempt:
\* the state from which the pure part of the program runs
InitRender ==
    /\ event \in HookEvents
    /\ file_seen = "valid"
    /\ pc = "loaded"
    /\ diagnostics_file = 1
    /\ locates = 1
    /\ slept = SettleDelay
    /\ load_slept = 0
    /\ attempt = 0
    /\ attempts = 1
    /\ absent_checks = 0
    /\ reads = 1
    /\ outcome = "ok"
    /\ data \in Snapshots
    /\ content = TextOf("valid", data)
    /\ stats = NoStats
    /\ reason_md = None
    /\ blocked = FALSE
    /\ stdout = <<>>
    /\ stderr = <<>>
    /\ exc = "none"
    /\ exit_code = -1

NextRender ==
    \/ Analyze
    \/ Render
    \/ Report
    \/ SysExit
    \/ MainExcept

\* the statistics and the report of every snapshot within the bounds
SpecRender == InitRender /\ [][NextRender]_vars

----------------------------------------------------------------------------
(* Properties *)

\* load_diagnostics has ended, by returning or by raising
LoadEnded ==
    locates > 0 /\ pc \in {"loaded", "analyzed", "returned", "finish", "raised", "exited"}

\* an exception left load_diagnostics
LoadRaised == exc # "none" /\ outcome = exc

\* the statistics in stats are those of data
Analyzed == pc = "analyzed"

\* generate_reason_markdown has returned: main is about to print, has
\* printed, or the print has raised
Returned ==
    /\ event \in HookEvents
    /\ \/ pc \in {"returned", "finish"}
       \/ pc \in {"raised", "exited"} /\ exc \in {"none", "UnicodeEncodeError"}

\* C1: with a location resolved and the file absent at every existence
\* check, load_diagnostics makes exactly 5 attempts, returns the empty
\* snapshot and nothing is raised.
C1_RetryTermination ==
    (LoadEnded /\ diagnostics_file # 0 /\ absent_checks = attempts)
        => (attempts = 5 /\ data = EmptyList /\ exc = "none")

C1_Witness ==
    /\ pc = "loaded"
    /\ diagnostics_file # 0
    /\ absent_checks = 5
    /\ attempts = 5
    /\ data = EmptyList

\* C2: whatever states the writer presents at the checks, no exception
\* leaves load_diagnostics.
C2_LoadNeverRaises == ~LoadRaised

\* a print to standard output has raised UnicodeEncodeError
PrintRaised == exc = "UnicodeEncodeError"

\* C3: when load_diagnostics has returned, whatever the file held, the
\* invocation ends with the normal completion status, unless the print of
\* the report has raised.
C3_ExitsNormally ==
    (pc = "exited" /\ LoadEnded /\ ~LoadRaised /\ ~PrintRaised) => exit_code = 0

\* C4: load_diagnostics never waits more than 4 time units in all.
C4_LoadWaitsAtMostFour == load_slept <= 4

\* C5: the waits of one invocation add up to at most 9 time units.
C5_WaitsAtMostNine == slept <= 9

\* how an attempt ends on empty content, a parse failure or an OS error
C6_FailureKinds == {"blank", "JSONDecodeError", "OSError", "PermissionError"}

\* C6: an attempt that ends on content empty after stripping, on a parse
\* failure or on an OS-level read error waits 1 time unit and retries
\* without logging before the 5th attempt; on the 5th it does not wait,
\* prints exactly one line to the error stream and returns the empty
\* snapshot.
C6_FinalAttemptLogs ==
    [][(pc \in {"stat", "read"} /\ outcome' \in C6_FailureKinds)
        => IF attempts < 5
           THEN /\ load_slept' = load_slept + 1
                /\ stderr' = stderr
                /\ pc' = "exists"
           ELSE /\ load_slept' = load_slept
                /\ Len(stderr') = Len(stderr) + 1
                /\ data' = EmptyList
                /\ pc' = "loaded"]_vars

\* C7: an attempt whose read finds valid JSON text ends the loop: the value
\* parsed from that text is returned with no wait, no log line and no
\* further attempt, whatever the earlier attempts saw; after
\* load_diagnostics has ended it makes no attempt and no wait, and the value
\* it returned stays as it is.
C7_FirstSuccessReturns ==
    [][/\ (pc = "read" /\ content'.text = "valid")
            => /\ outcome' = "ok"
               /\ data' = content'.value
               /\ pc' = "loaded"
               /\ slept' = slept
               /\ stderr' = stderr
       /\ LoadEnded
            => /\ attempts' = attempts
               /\ load_slept' = load_slept
               /\ data' = data]_vars

C7_Witness ==
    /\ pc = "loaded"
    /\ outcome = "ok"
    /\ attempts = 3
    /\ absent_checks = 1
    /\ data = ScenarioA

\* an entry counted as Error or Warning: severity 0 or 1, or no severity
CountedAsErrorOrWarning(diag) ==
    "severity" \notin DOMAIN diag \/ diag.severity \in {0, 1}

HasErrorOrWarning(d) ==
    \E i \in 1..Len(d.items) :
        \E j \in 1..Len(Get(d.items[i], "diagnostics", <<>>)) :
            CountedAsErrorOrWarning(d.items[i].diagnostics[j])

\* C8: for every snapshot, generate_reason_markdown returns a report if the
\* snapshot has an entry counted as Error or Warning, and None if it has none.
C8_ReportIffErrorOrWarning ==
    /\ exc \in {"none", "UnicodeEncodeError"}
    /\ Returned => (~reason_md.none <=> HasErrorOrWarning(data))

C8_Witness ==
    /\ pc = "returned"
    /\ ~reason_md.none
    /\ ErrorCount(stats) = 0
    /\ Len(data.items) = 2

\* diagnostics with severity 0 written out where the field is missing
RECURSIVE WithSeverity(_)
WithSeverity(diagnostics) ==
    IF Len(diagnostics) = 0 THEN <<>>
    ELSE <<IF "severity" \in DOMAIN Head(diagnostics)
           THEN Head(diagnostics)
           ELSE Head(diagnostics) @@ [severity |-> 0]>>
         \o WithSeverity(Tail(diagnostics))

RECURSIVE WithSeverities(_)
WithSeverities(files) ==
    IF Len(files) = 0 THEN <<>>
    ELSE <<IF "diagnostics" \in DOMAIN Head(files)
           THEN [Head(files) EXCEPT !.diagnostics = WithSeverity(@)]
           ELSE Head(files)>>
         \o WithSeverities(Tail(files))

\* C9: the statistics and the report of a snapshot are those of the same
\* snapshot with severity 0 written out wherever the field is missing.
C9_MissingSeverityIsZero ==
    Returned =>
        LET explicit == List(WithSeverities(data.items))
        IN /\ analyze_statistics(explicit) = analyze_statistics(data)
           /\ reason_md = IF data.truthy
                          THEN ReportOf(explicit, analyze_statistics(explicit))
                          ELSE None

\* the severity names analyze_statistics can count
SeverityNames == {"Error", "Warning", "Information", "Hint", "Unknown"}

\* the entries of the snapshot that carry the severity name
EntriesNamed(d, name) ==
    UNION {{<<i, j>> : j \in {k \in 1..Len(Get(d.items[i], "diagnostics", <<>>)) :
                                SeverityName(d.items[i].diagnostics[k]) = name}} :
           i \in 1..Len(d.items)}

\* C10 as stated: by_severity has the four severities as keys, with value 0
\* for a severity that has no entry.
C10_AllFourKeys ==
    Analyzed =>
        \A name \in {"Error", "Warning", "Information", "Hint"} :
            /\ name \in DOMAIN stats.by_severity
            /\ stats.by_severity[name] = Cardinality(EntriesNamed(data, name))

\* C10 as amended: the keys of by_severity are exactly the severity names
\* that have at least one entry, each with the number of its entries; a
\* severity with no entry is no key, and reads as 0 with a default of 0.
C10_OnlyCountedKeys ==
    Analyzed =>
        /\ DOMAIN stats.by_severity \subseteq SeverityNames
        /\ \A name \in SeverityNames :
             LET n == Cardinality(EntriesNamed(data, name))
             IN /\ name \in DOMAIN stats.by_severity <=> n > 0
                /\ Get(stats.by_severity, name, 0) = n

C10_Witness ==
    /\ Analyzed
    /\ DOMAIN stats.by_severity = {"Warning", "Unknown"}

\* the orders in which n file entries can stand in the snapshot
Orders(n) ==
    {p \in [1..n -> 1..n] : \A i, j \in 1..n : p[i] = p[j] => i = j}

\* the file entries in the order p
Permuted(files, p) == [i \in 1..Len(files) |-> files[p[i]]]

RECURSIVE EntryCount(_)
\* the sum of the per-file entry counts
EntryCount(files) ==
    IF Len(files) = 0 THEN 0
    ELSE Len(Get(Head(files), "diagnostics", <<>>)) + EntryCount(Tail(files))

RECURSIVE CounterTotal(_)
\* the sum of the counts of a counter
CounterTotal(counter) ==
    IF DOMAIN counter = {} THEN 0
    ELSE LET key == CHOOSE k \in DOMAIN counter : TRUE
         IN counter[key]
            + CounterTotal([k \in DOMAIN counter \ {key} |-> counter[k]])

\* C11: analyze_statistics returns the same result for every permutation of
\* the file entries; total_files is the number of file entries, those with
\* zero diagnostics included, total_diagnostics is the sum of the per-file
\* entry counts, and the by_severity counts sum to total_diagnostics.
C11_OrderIndependentTotals ==
    Analyzed =>
        /\ \A p \in Orders(Len(data.items)) :
               analyze_statistics(List(Permuted(data.items, p))) = stats
        /\ stats.total_files = Len(data.items)
        /\ stats.total_diagnostics = EntryCount(data.items)
        /\ CounterTotal(stats.by_severity) = stats.total_diagnostics

\* two different file entries, one of them without diagnostics
C11_Witness ==
    /\ Analyzed
    /\ Len(data.items) = 2
    /\ data.items[1] # data.items[2]
    /\ Len(data.items[1].diagnostics) = 0
    /\ Len(data.items[2].diagnostics) = 2
    /\ stats.total_files = 2

\* C12: for every snapshot with at least one Error or Warning, the Error and
\* Warning counts of the report's summary header are the numbers of entries
\* of the snapshot named Error and Warning, counted from the snapshot itself.
C12_HeaderCounts ==
    (Returned /\ HasErrorOrWarning(data)) =>
        /\ ~reason_md.none
        /\ reason_md.lines[3] =
               [kind |-> "error_count", n |-> Cardinality(EntriesNamed(data, "Error"))]
        /\ reason_md.lines[4] =
               [kind |-> "warning_count", n |-> Cardinality(EntriesNamed(data, "Warning"))]

C12_Witness ==
    /\ pc = "returned"
    /\ ~reason_md.none
    /\ reason_md.lines[3].n = 2
    /\ reason_md.lines[4].n = 0
    /\ Len(data.items) = 2

\* C13: on PostToolUse, when generate_reason_markdown has produced a report
\* the invocation ends with exactly one block decision on standard output,
\* carrying the report as its reason, and check_and_report has returned True;
\* when it has produced none it ends with nothing on standard output and
\* check_and_report has returned False.
C13_BlockIffReport ==
    (event = "PostToolUse" /\ Returned /\ pc = "exited") =>
        IF ~reason_md.none
        THEN /\ stdout = <<[decision |-> "block", reason |-> reason_md.lines]>>
             /\ blocked
             /\ exc = "none"
        ELSE /\ stdout = <<>>
             /\ ~blocked
             /\ exc = "none"

\* C14: on UserPromptSubmit no block decision is ever on standard output;
\* when a report has been produced the invocation ends with exactly one
\* injected context whose text is the banner followed at once by the report
\* from its summary title on, and with nothing on standard output otherwise.
C14_InjectIffReport ==
    event = "UserPromptSubmit" =>
        /\ \A i \in 1..Len(stdout) : "decision" \notin DOMAIN stdout[i]
        /\ ~blocked
        /\ (Returned /\ pc = "exited") =>
               IF ~reason_md.none
               THEN /\ Len(stdout) = 1
                    /\ stdout[1].hookEventName = "UserPromptSubmit"
                    /\ stdout[1].additionalContext = Emphasis \o reason_md.lines
                    /\ reason_md.lines[1] = [kind |-> "summary_title"]
               ELSE stdout = <<>>

\* what generate_reason_markdown returns for a snapshot, as a function of
\* the snapshot alone
ReportFor(d) == IF ~d.truthy THEN None ELSE ReportOf(d, analyze_statistics(d))

\* C15: in every run, whatever the attempts and the waits before the snapshot
\* was read, what generate_reason_markdown returns is one function of the
\* loaded snapshot: two runs that load the same snapshot return the same
\* report, or both None.
C15_SameSnapshotSameReport == Returned => reason_md = ReportFor(data)

\* a report returned after three failed attempts
C15_Witness ==
    /\ pc = "returned"
    /\ ~reason_md.none
    /\ data = FullEntry
    /\ attempts = 4
    /\ load_slept = 3

\* the step is the additional wait followed by the re-resolution
Relocated ==
    /\ slept' = slept + RelocateDelay
    /\ locates' = locates + 1

\* the step takes neither the additional wait nor a re-resolution
NotRelocated == slept' = slept /\ locates' = locates

\* C16 as stated: the settle wait is complete before the first read attempt;
\* the additional wait and the re-resolution happen exactly when no location
\* had been found by then; the location is resolved again at most once.
C16_RelocateIffUnlocated ==
    [][/\ attempts' > 0 => slept >= SettleDelay
       /\ pc = "relocate" =>
              /\ slept = SettleDelay
              /\ IF diagnostics_file = 0 THEN Relocated ELSE NotRelocated
       /\ locates' <= 2]_vars

\* C16 as amended: the additional wait and the re-resolution happen exactly
\* when no location had been found by then or the file at the location found
\* does not exist at that moment.
C16_RelocateIffUnlocatedOrAbsent ==
    [][/\ attempts' > 0 => slept >= SettleDelay
       /\ pc = "relocate" =>
              /\ slept = SettleDelay
              /\ IF diagnostics_file = 0 \/ ~Exists(file_seen')
                 THEN Relocated ELSE NotRelocated
       /\ locates' <= 2]_vars

\* a location was found at construction, the file was gone after the settle
\* wait, and the location has been resolved again
C16_Witness ==
    /\ pc = "load"
    /\ file_seen = "missing"
    /\ locates = 2
    /\ slept = SettleDelay + RelocateDelay

\* the lines of a report that open a file section or belong to one entry
IsSectionLine(l) == l.kind \in {"file_heading", "position", "message"}

\* what such a line says about the snapshot
SectionMark(l) ==
    CASE l.kind = "file_heading" -> <<"file", l.file_name>>
      [] l.kind = "position" -> <<"entry", l.severity_name>>
      [] l.kind = "message" -> <<"message", l.text>>

\* the file sections and their entries in the order of the report
Outline(lines) ==
    LET kept == SelectSeq(lines, IsSectionLine)
    IN [i \in 1..Len(kept) |-> SectionMark(kept[i])]

RECURSIVE EntriesInOrder(_)
\* one entry per diagnostic, in the snapshot's order
EntriesInOrder(diagnostics) ==
    IF Len(diagnostics) = 0 THEN <<>>
    ELSE <<<<"entry", SeverityName(Head(diagnostics))>>,
           <<"message", Get(Head(diagnostics), "message", "none")>>>>
         \o EntriesInOrder(Tail(diagnostics))

RECURSIVE SectionsInOrder(_)
\* one section per file entry with at least one diagnostic, in the
\* snapshot's order
SectionsInOrder(files) ==
    IF Len(files) = 0 THEN <<>>
    ELSE LET diagnostics == Get(Head(files), "diagnostics", <<>>)
         IN (IF Len(diagnostics) = 0 THEN <<>>
             ELSE <<<<"file", BaseName(Head(files).file)>>>>
                  \o EntriesInOrder(diagnostics))
            \o SectionsInOrder(Tail(files))

\* C17: in every report the file sections are the file entries of the
\* snapshot that have at least one diagnostic, in the snapshot's order, each
\* with one entry per diagnostic in the snapshot's order; a file entry with
\* zero diagnostics has no section.
C17_SectionsInSnapshotOrder ==
    (Returned /\ ~reason_md.none) =>
        Outline(reason_md.lines) = SectionsInOrder(data.items)

\* two sections for two different files
C17_Witness ==
    /\ pc = "returned"
    /\ ~reason_md.none
    /\ Len(data.items) = 2
    /\ Len(data.items[1].diagnostics) = 1
    /\ Len(data.items[2].diagnostics) = 1
    /\ data.items[1].file # data.items[2].file
    /\ SeverityName(data.items[1].diagnostics[1]) = "Warning"
    /\ SeverityName(data.items[2].diagnostics[1]) = "Error"

\* C18: with no location resolved at construction nor at the re-resolution,
\* load_diagnostics returns the empty snapshot with no attempt, no look at
\* the file and no wait of its own, whatever the file is afterwards, and the
\* invocation ends with nothing written and the normal completion status.
C18_UnlocatedLoadsNothing ==
    (LoadEnded /\ diagnostics_file = 0) =>
        /\ attempts = 0 /\ absent_checks = 0 /\ reads = 0
        /\ load_slept = 0
        /\ slept = SettleDelay + RelocateDelay
        /\ locates = 2
        /\ file_seen \in {"unseen", "missing"}
        /\ data = EmptyList
        /\ exc = "none"
        /\ stdout = <<>> /\ stderr = <<>>
        /\ pc \in {"loaded", "returned", "finish", "exited"}
        /\ Returned => reason_md = None
        /\ pc = "exited" => exit_code = ExitOk

\* no candidate existed either time and the invocation has ended
C18_Witness ==
    /\ pc = "exited"
    /\ diagnostics_file = 0
    /\ file_seen = "unseen"
    /\ locates = 2
    /\ exit_code = ExitOk

\* the lines of a payload on standard output: the reason of a block
\* decision, or the injected context
EmittedLines(payload) ==
    IF "decision" \in DOMAIN payload THEN payload.reason
    ELSE payload.additionalContext

\* the count the summary header shows on its line of the kind
HeaderCount(lines, kind) ==
    LET i == CHOOSE k \in 1..Len(lines) : lines[k].kind = kind
    IN lines[i].n

\* the number of entries listed in the detail sections under the name
ListedAs(lines, name) ==
    Cardinality({i \in 1..Len(lines) :
                    /\ lines[i].kind = "position"
                    /\ lines[i].severity_name = name})

\* C19: the file is read successfully at most once and not looked at again;
\* the loaded value, the statistics and the returned report are those of the
\* content of that read, and in every emitted report the Error and Warning
\* counts of the header are the numbers of entries its detail sections list
\* as Error and Warning.
C19_OneReadOneValue ==
    /\ reads <= 1
    /\ reads = 1 =>
           /\ LoadEnded
           /\ file_seen = "valid"
           /\ data = json_loads(content)
    /\ (Analyzed \/ (Returned /\ data.truthy)) => stats = analyze_statistics(data)
    /\ Returned => reason_md = ReportOf(data, stats)
    /\ event \in HookEvents =>
           \A i \in 1..Len(stdout) :
               LET lines == EmittedLines(stdout[i])
               IN /\ HeaderCount(lines, "error_count") = ListedAs(lines, "Error")
                  /\ HeaderCount(lines, "warning_count") = ListedAs(lines, "Warning")

\* a report emitted from the value read at the second attempt
C19_Witness ==
    /\ pc = "exited"
    /\ event = "UserPromptSubmit"
    /\ reads = 1
    /\ attempts = 2
    /\ data = FullEntry
    /\ Len(stdout) = 1
    /\ HeaderCount(EmittedLines(stdout[1]), "error_count") = 1
    /\ HeaderCount(EmittedLines(stdout[1]), "warning_count") = 1

\* C20: on any other event the invocation does not wait, does not resolve,
\* look at or read the snapshot file, writes no block decision and no
\* injected context, and ends with exactly one echo line that holds the
\* event name on standard output and the normal completion status.
C20_OtherEventsEcho ==
    event \notin HookEvents =>
        /\ slept = 0
        /\ locates = 0 /\ diagnostics_file = 0
        /\ file_seen = "unseen" /\ attempts = 0 /\ reads = 0
        /\ \A i \in 1..Len(stdout) : stdout[i].kind \in {"echo", "echo_ascii"}
        /\ pc = "exited" =>
               /\ Len(stdout) = 1
               /\ stdout[1].event = event
               /\ exit_code = ExitOk

====
